---- MODULE Spec2Model ----
(***************************************************************************)
(* A model of pytides/astro.py: the Julian date of a timestamp, the        *)
(* polynomial evaluators, the coefficient table and astro(t).              *)
(*                                                                         *)
(* Python floats are IEEE-754 binary64.  A float is modelled exactly, as   *)
(* [s |-> sign, m |-> significand, e |-> exponent] with value              *)
(* (-1)^s * m * 2^e, the significand held as a natural number of exactly   *)
(* 53 bits (or zero), and every arithmetic operation rounds its exact      *)
(* result to nearest, ties to even, as the hardware does.  TLC's integers  *)
(* are 32 bits wide, so a significand is a sequence of limbs, base 2^15,   *)
(* least significant first.  Infinities, NaN and subnormals are outside    *)
(* the values astro.py reaches and are not modelled.                       *)
(***************************************************************************)
EXTENDS Integers, Sequences, FiniteSets, TLC

\* w, once v has been computed.  TLC computes the argument of an operator
\* where it is first used, inside whatever is being evaluated by then; a
\* Python statement is computed before the next one starts.  After(v, w)
\* puts v first.
After(v, w) == IF v = v THEN w ELSE w

(***************************************************************************)
(* Natural numbers of any width: sequences of limbs, least significant     *)
(* first, no leading zero limb; <<>> is zero.                              *)
(***************************************************************************)
\* 2^15: the product of two limbs plus a carry fits TLC's 32-bit integers
Base == 32 * 1024

RECURSIVE IntBitLen(_)
IntBitLen(n) == IF n = 0 THEN 0 ELSE 1 + IntBitLen(n \div 2)
LimbBits == IntBitLen(Base - 1)

Limb(a, i) == IF i <= Len(a) THEN a[i] ELSE 0

RECURSIVE BTrim(_)
BTrim(a) ==
  IF a = <<>> THEN a
  ELSE IF a[Len(a)] = 0 THEN BTrim(SubSeq(a, 1, Len(a) - 1)) ELSE a

RECURSIVE BFromInt(_)
BFromInt(n) == IF n = 0 THEN <<>> ELSE <<n % Base>> \o BFromInt(n \div Base)

RECURSIVE BToIntFrom(_, _)
BToIntFrom(a, i) == IF i > Len(a) THEN 0 ELSE a[i] + Base * BToIntFrom(a, i + 1)
BToInt(a) == BToIntFrom(a, 1)

RECURSIVE BAddFrom(_, _, _, _)
BAddFrom(a, b, i, c) ==
  IF i > Len(a) /\ i > Len(b)
  THEN IF c = 0 THEN <<>> ELSE <<c>>
  ELSE LET sum == Limb(a, i) + Limb(b, i) + c
       IN  <<sum % Base>> \o BAddFrom(a, b, i + 1, sum \div Base)
BAdd(a, b) == BAddFrom(a, b, 1, 0)

\* a - b for a >= b
RECURSIVE BSubFrom(_, _, _, _)
BSubFrom(a, b, i, c) ==
  IF i > Len(a) THEN <<>>
  ELSE LET dif == a[i] - Limb(b, i) - c
       IN  IF dif < 0 THEN <<dif + Base>> \o BSubFrom(a, b, i + 1, 1)
           ELSE <<dif>> \o BSubFrom(a, b, i + 1, 0)
BSub(a, b) == BTrim(BSubFrom(a, b, 1, 0))

\* -1, 0, 1 as a < b, a = b, a > b
RECURSIVE BCmpFrom(_, _, _)
BCmpFrom(a, b, i) ==
  IF i = 0 THEN 0
  ELSE IF a[i] < b[i] THEN -1
  ELSE IF a[i] > b[i] THEN 1
  ELSE BCmpFrom(a, b, i - 1)
BCmp(a, b) ==
  IF Len(a) < Len(b) THEN -1
  ELSE IF Len(a) > Len(b) THEN 1
  ELSE BCmpFrom(a, b, Len(a))

\* a * k + c for 0 <= k < Base
RECURSIVE BMulSmallFrom(_, _, _, _)
BMulSmallFrom(a, k, i, c) ==
  IF i > Len(a)
  THEN IF c = 0 THEN <<>> ELSE <<c>>
  ELSE LET prod == a[i] * k + c
       IN  <<prod % Base>> \o BMulSmallFrom(a, k, i + 1, prod \div Base)
BMulSmall(a, k) == IF k = 0 THEN <<>> ELSE BMulSmallFrom(a, k, 1, 0)

Zeros(n) == [i \in 1..n |-> 0]

RECURSIVE BMulFrom(_, _, _)
BMulFrom(a, b, i) ==
  IF i > Len(b) THEN <<>>
  ELSE BAdd(IF b[i] = 0 THEN <<>> ELSE Zeros(i - 1) \o BMulSmall(a, b[i]),
            BMulFrom(a, b, i + 1))
BMul(a, b) == IF a = <<>> \/ b = <<>> THEN <<>> ELSE BMulFrom(a, b, 1)

\* quotient and remainder of a by k, 0 < k < Base, from the top limb down
\* the quotient lower.q with one more digit on top of it
PutDigit(lower, digit) == [q |-> lower.q \o <<digit>>, r |-> lower.r]

RECURSIVE BDivSmallFrom(_, _, _, _)
BDivSmallFrom(a, k, i, r) ==
  IF i = 0 THEN [q |-> <<>>, r |-> r]
  ELSE LET part == r * Base + a[i]
       IN  After(part, PutDigit(BDivSmallFrom(a, k, i - 1, part % k),
                                part \div k))
BDivSmall(a, k) == BTrim(BDivSmallFrom(a, k, Len(a), 0).q)

BBitLen(a) == IF a = <<>> THEN 0 ELSE LimbBits * (Len(a) - 1) + IntBitLen(a[Len(a)])

\* a * 2^n
BShl(a, n) ==
  IF a = <<>> THEN a
  ELSE IF n % LimbBits = 0 THEN Zeros(n \div LimbBits) \o a
  ELSE Zeros(n \div LimbBits) \o BMulSmall(a, 2 ^ (n % LimbBits))

\* a \div 2^n
BShr(a, n) ==
  LET limbs == n \div LimbBits
  IN  IF limbs >= Len(a) THEN <<>>
      ELSE IF n % LimbBits = 0 THEN SubSeq(a, limbs + 1, Len(a))
      ELSE BDivSmall(SubSeq(a, limbs + 1, Len(a)), 2 ^ (n % LimbBits))

\* bit n (from 0) of a
BBit(a, n) == (Limb(a, n \div LimbBits + 1) \div 2 ^ (n % LimbBits)) % 2

\* whether the n low bits of a are all zero
BLowZero(a, n) ==
  LET whole == n \div LimbBits
  IN  /\ \A j \in 1..whole : Limb(a, j) = 0
      /\ Limb(a, whole + 1) % 2 ^ (n % LimbBits) = 0

\* The quotient digit of rem by d, where rem < d * Base and the top limb of d
\* is at least Base / 2: the estimate from the two top limbs of rem is the
\* digit or up to two more (Knuth, TAOCP 4.3.1 D), so it is stepped down
\* until digit * d <= rem.
RECURSIVE BDigit(_, _, _)
BDigit(rem, d, guess) ==
  IF BCmp(BMulSmall(d, guess), rem) <= 0 THEN guess ELSE BDigit(rem, d, guess - 1)
BDigitOf(rem, d) ==
  LET top == (Limb(rem, Len(d) + 1) * Base + Limb(rem, Len(d))) \div d[Len(d)]
  IN  BDigit(rem, d, IF top > Base - 1 THEN Base - 1 ELSE top)

\* long division of the limbs i..1 of n by d, from the top limb down, rem
\* the remainder of the limbs above: the limb i is put under rem, which
\* gives the digit i of the quotient and the remainder left for the limbs
\* below
RECURSIVE BDivModFrom(_, _, _, _)
BDivModLeft(n, d, i, left, digit) ==
  After(left, PutDigit(BDivModFrom(n, d, i - 1, left), digit))
BDivModDigit(n, d, i, cur, digit) ==
  BDivModLeft(n, d, i, BSub(cur, BMulSmall(d, digit)), digit)
BDivModCur(n, d, i, cur) == BDivModDigit(n, d, i, cur, BDigitOf(cur, d))
BDivModFrom(n, d, i, rem) ==
  IF i = 0 THEN [q |-> <<>>, r |-> rem]
  ELSE BDivModCur(n, d, i, BTrim(<<n[i]>> \o rem))

\* quotient and remainder of n by d, d > 0 of any width; both are first
\* shifted by norm bits so that the top limb of d is at least Base / 2
BDivModResult(res, norm) ==
  [q |-> BTrim(res.q), r |-> BShr(res.r, norm), exact |-> res.r = <<>>]
BDivModShifted(nn, dd, norm) ==
  BDivModResult(BDivModFrom(nn, dd, Len(nn), <<>>), norm)
BDivModNorm(n, d, norm) == BDivModShifted(BShl(n, norm), BShl(d, norm), norm)
BDivMod(n, d) == BDivModNorm(n, d, LimbBits - IntBitLen(d[Len(d)]))

(***************************************************************************)
(* IEEE-754 binary64, the Python float.                                    *)
(***************************************************************************)
\* bits of the significand
Precision == 53

FZero == [s |-> 0, m |-> <<>>, e |-> 0]
IsZero(x) == x.m = <<>>

\* the float nearest to (-1)^s * (m + f) * 2^e, where 0 <= f < 1 and
\* sticky says f > 0; ties go to the even significand.  With sticky set m
\* has more than Precision bits.  The drop low bits of m go: the highest of
\* them is the guard bit, and m is rounded up when the guard bit is set and
\* either something lies below it or the kept significand is odd.  A carry
\* out of the top bit leaves a power of two.
FRoundCarry(s, rounded, e) ==
  IF BBitLen(rounded) > Precision
  THEN [s |-> s, m |-> BShr(rounded, 1), e |-> e + 1]
  ELSE [s |-> s, m |-> rounded, e |-> e]
FRoundDrop(s, m, e, sticky, drop) ==
  FRoundCarry(s,
              BAddFrom(BShr(m, drop), <<>>, 1,
                       IF /\ BBit(m, drop - 1) = 1
                          /\ \/ sticky
                             \/ ~BLowZero(m, drop - 1)
                             \/ BBit(m, drop) = 1
                       THEN 1 ELSE 0),
              e + drop)
FRoundWidth(s, m, e, sticky, width) ==
  IF width <= Precision
  THEN [s |-> s, m |-> BShl(m, Precision - width), e |-> e - (Precision - width)]
  ELSE FRoundDrop(s, m, e, sticky, width - Precision)
FRound(s, m, e, sticky) ==
  After(<<m, e, sticky>>,
  IF m = <<>> THEN [s |-> s, m |-> <<>>, e |-> 0]
  ELSE FRoundWidth(s, m, e, sticky, BBitLen(m)))

\* int -> float (exact below 2^53)
FromInt(n) ==
  After(n, FRound(IF n < 0 THEN 1 ELSE 0, BFromInt(IF n < 0 THEN -n ELSE n),
                  0, FALSE))

FNeg(x) == [x EXCEPT !.s = 1 - x.s]

\* x + y: the significands are aligned at the lower exponent emin and added
\* or subtracted exactly, and the sum is rounded once
FAddExact(s, m, e) == IF m = <<>> THEN FZero ELSE FRound(s, m, e, FALSE)
FAddAligned(x, y, mx, my, emin) ==
  IF x.s = y.s THEN FAddExact(x.s, BAdd(mx, my), emin)
  ELSE IF BCmp(mx, my) >= 0 THEN FAddExact(x.s, BSub(mx, my), emin)
  ELSE FAddExact(y.s, BSub(my, mx), emin)
FAddAt(x, y, emin) ==
  FAddAligned(x, y, BShl(x.m, x.e - emin), BShl(y.m, y.e - emin), emin)
FAdd(x, y) ==
  After(<<x, y>>,
  IF IsZero(x) /\ IsZero(y) THEN (IF x.s = 1 /\ y.s = 1 THEN FNeg(FZero) ELSE FZero)
  ELSE IF IsZero(x) THEN y
  ELSE IF IsZero(y) THEN x
  ELSE FAddAt(x, y, IF x.e < y.e THEN x.e ELSE y.e))

FSub(x, y) == FAdd(x, FNeg(y))

\* x * y
FMul(x, y) ==
  After(<<x, y>>,
  IF IsZero(x) \/ IsZero(y) THEN [s |-> (x.s + y.s) % 2, m |-> <<>>, e |-> 0]
  ELSE FRound((x.s + y.s) % 2, BMul(x.m, y.m), x.e + y.e, FALSE))

\* the float nearest to a quotient of significands of which quot has the
\* leading bits and says whether a remainder is left
FromQuot(s, quot, e) == FRound(s, quot.q, e, ~quot.exact)

\* x / y for y # 0: 57 or 58 quotient bits and whether a remainder is left
GuardBits == Precision + 4
FDiv(x, y) ==
  After(<<x, y>>,
  IF IsZero(x) THEN [s |-> (x.s + y.s) % 2, m |-> <<>>, e |-> 0]
  ELSE FromQuot((x.s + y.s) % 2, BDivMod(BShl(x.m, GuardBits), y.m),
                x.e - y.e - GuardBits))

\* x < y, x <= y
FLt(x, y) ==
  IF IsZero(x) /\ IsZero(y) THEN FALSE
  ELSE IF IsZero(x) THEN y.s = 0
  ELSE IF IsZero(y) THEN x.s = 1
  ELSE IF x.s # y.s THEN x.s = 1
  ELSE IF x.s = 0 THEN x.e < y.e \/ (x.e = y.e /\ BCmp(x.m, y.m) < 0)
  ELSE x.e > y.e \/ (x.e = y.e /\ BCmp(x.m, y.m) > 0)
FEq(x, y) == (IsZero(x) /\ IsZero(y)) \/ x = y
FLe(x, y) == FLt(x, y) \/ FEq(x, y)

\* math.floor(x), a Python int
Floor(x) ==
  After(x,
  IF IsZero(x) THEN 0
  ELSE IF x.e >= 0 THEN (IF x.s = 1 THEN -1 ELSE 1) * BToInt(BShl(x.m, x.e))
  ELSE IF x.s = 0 THEN BToInt(BShr(x.m, -x.e))
  ELSE IF BLowZero(x.m, -x.e) THEN -BToInt(BShr(x.m, -x.e))
  ELSE -(BToInt(BShr(x.m, -x.e)) + 1))

\* the float a decimal literal denotes, the literal's fraction digits given
\* in two groups of k and k2 digits: (ip * 10^(k+k2) + fp * 10^k2 + fp2)
\* / 10^(k+k2), rounded once
DecQuot(num, den, scale) ==
  FromQuot(0, BDivMod(BShl(num, scale), den), -scale)
DecRatio(num, den) ==
  DecQuot(num, den,
          IF BBitLen(num) >= GuardBits + BBitLen(den) THEN 0
          ELSE GuardBits + BBitLen(den) - BBitLen(num))
DecOver(ip, fp, fp2, k2, den) ==
  DecRatio(BAdd(BAdd(BMul(BFromInt(ip), den),
                     BMul(BFromInt(fp), BFromInt(10 ^ k2))),
                BFromInt(fp2)),
           den)
DecParts(ip, fp, k, fp2, k2) ==
  DecOver(ip, fp, fp2, k2, BMul(BFromInt(10 ^ k), BFromInt(10 ^ k2)))

\* the literal ip.fp with k fraction digits
Dec(ip, fp, k) == DecParts(ip, fp, k, 0, 0)

\* Python's x % y for y > 0: C's fmod, exact, with the sign of x; a non-zero
\* negative remainder then has y added to it, and that sum is rounded
FModSigned(x, y, mod) == IF x.s = 1 THEN FAdd(mod, y) ELSE mod
FModRem(x, y, rem, emin) ==
  IF rem = <<>> THEN FZero
  ELSE FModSigned(x, y, FRound(x.s, rem, emin, FALSE))
FModAt(x, y, emin) ==
  FModRem(x, y, BDivMod(BShl(x.m, x.e - emin), BShl(y.m, y.e - emin)).r, emin)
FMod(x, y) ==
  After(<<x, y>>,
  IF IsZero(x) THEN FZero
  ELSE FModAt(x, y, IF x.e < y.e THEN x.e ELSE y.e))

ZeroDivisionError == [raised |-> "ZeroDivisionError"]
Raised(v) == v = ZeroDivisionError

RECURSIVE BPow(_, _)
BPow(a, k) == IF k = 0 THEN <<1>> ELSE BMul(BPow(a, k - 1), a)

\* x ** k for an int k: 1.0 for k = 0, ZeroDivisionError for 0.0 to a negative
\* power, and otherwise the float nearest to the exact power (C's pow)
FPowInverse(s, den, e) ==
  FromQuot(s, BDivMod(BShl(<<1>>, GuardBits + BBitLen(den)), den),
           -(GuardBits + BBitLen(den)) - e)
FPow(x, k) ==
  After(<<x, k>>,
  IF k = 0 THEN FromInt(1)
  ELSE IF IsZero(x)
  THEN IF k < 0 THEN ZeroDivisionError ELSE FZero
  ELSE IF k > 0
  THEN FRound(IF k % 2 = 0 THEN 0 ELSE x.s, BPow(x.m, k), x.e * k, FALSE)
  ELSE FPowInverse(IF k % 2 = 0 THEN 0 ELSE x.s, BPow(x.m, -k), x.e * (-k)))

(***************************************************************************)
(* Time and calendar conversion.  A timestamp is a datetime: the record    *)
(* [year, month, day, hour, minute, second, microsecond].                  *)
(***************************************************************************)
\* JD without the step that counts January and February as the months 13
\* and 14 of the year before
JD_SameYear(t) ==
  LET D == FAdd(FAdd(FAdd(FAdd(
             FromInt(t.day),
             FDiv(FromInt(t.hour), Dec(24, 0, 1))),
             FDiv(FromInt(t.minute), FMul(Dec(24, 0, 1), Dec(60, 0, 1)))),
             FDiv(FromInt(t.second),
                  FMul(FMul(Dec(24, 0, 1), Dec(60, 0, 1)), Dec(60, 0, 1)))),
             FDiv(FromInt(t.microsecond),
                  FMul(FMul(FMul(Dec(24, 0, 1), Dec(60, 0, 1)), Dec(60, 0, 1)),
                       FromInt(1000000))))
      Y == t.year
      M == t.month
      A == Floor(FDiv(FromInt(Y), Dec(100, 0, 1)))
      B == 2 - A + Floor(FDiv(FromInt(A), Dec(4, 0, 1)))
  IN  FSub(FAdd(FAdd(FromInt(Floor(FMul(Dec(365, 25, 2), FromInt(Y + 4716)))
                             + Floor(FMul(Dec(30, 6001, 4), FromInt(M + 1)))),
                     D),
                FromInt(B)),
           Dec(1524, 5, 1))

\* Meeus formula 7.1
JD(t) ==
  LET D == FAdd(FAdd(FAdd(FAdd(
             FromInt(t.day),
             FDiv(FromInt(t.hour), Dec(24, 0, 1))),
             FDiv(FromInt(t.minute), FMul(Dec(24, 0, 1), Dec(60, 0, 1)))),
             FDiv(FromInt(t.second),
                  FMul(FMul(Dec(24, 0, 1), Dec(60, 0, 1)), Dec(60, 0, 1)))),
             FDiv(FromInt(t.microsecond),
                  FMul(FMul(FMul(Dec(24, 0, 1), Dec(60, 0, 1)), Dec(60, 0, 1)),
                       FromInt(1000000))))
      Y == IF t.month <= 2 THEN t.year - 1 ELSE t.year
      M == IF t.month <= 2 THEN t.month + 12 ELSE t.month
      A == Floor(FDiv(FromInt(Y), Dec(100, 0, 1)))
      B == 2 - A + Floor(FDiv(FromInt(A), Dec(4, 0, 1)))
  IN  FSub(FAdd(FAdd(FromInt(Floor(FMul(Dec(365, 25, 2), FromInt(Y + 4716)))
                             + Floor(FMul(Dec(30, 6001, 4), FromInt(M + 1)))),
                     D),
                FromInt(B)),
           Dec(1524, 5, 1))

\* T counted from the epoch 1900 January 0.5 of the older tables
T_B1900(t) == FDiv(FSub(JD(t), Dec(2415020, 0, 1)), FromInt(36525))

\* Meeus formula 11.1
T(t) == FDiv(FSub(JD(t), Dec(2451545, 0, 1)), FromInt(36525))

(***************************************************************************)
(* The coefficients.                                                       *)
(***************************************************************************)
\* Convert a sexagesimal angle into decimal degrees
s2d(degrees, arcmins, arcsecs, mas, muas) ==
  FAdd(FAdd(FAdd(FAdd(
    degrees,
    FDiv(arcmins, Dec(60, 0, 1))),
    FDiv(arcsecs, FMul(Dec(60, 0, 1), Dec(60, 0, 1)))),
    FDiv(mas, FMul(FMul(Dec(60, 0, 1), Dec(60, 0, 1)), FromInt(1000)))),
    FDiv(muas, FMul(FMul(Dec(60, 0, 1), Dec(60, 0, 1)), FromInt(1000000))))

\* s2d with the defaults arcmins = 0, arcsecs = 0, mas = 0, muas = 0
s2d3(degrees, arcmins, arcsecs) ==
  s2d(FromInt(degrees), FromInt(arcmins), arcsecs, FZero, FZero)

\* Meeus formula 21.3, in U
terrestrial_obliquity_coefficients_U == <<
  s2d3(23, 26, Dec(21, 448, 3)),
  FNeg(s2d3(0, 0, Dec(4680, 93, 2))),
  FNeg(s2d3(0, 0, Dec(1, 55, 2))),
  s2d3(0, 0, Dec(1999, 25, 2)),
  FNeg(s2d3(0, 0, Dec(51, 38, 2))),
  FNeg(s2d3(0, 0, Dec(249, 67, 2))),
  FNeg(s2d3(0, 0, Dec(39, 5, 2))),
  s2d3(0, 0, Dec(7, 12, 2)),
  s2d3(0, 0, Dec(27, 87, 2)),
  s2d3(0, 0, Dec(5, 79, 2)),
  s2d3(0, 0, Dec(2, 45, 2)) >>

\* Adjust these coefficients for parameter T rather than U
RECURSIVE InT(_, _)
InT(coefficients, k) ==
  IF k > Len(coefficients) THEN <<>>
  ELSE <<FMul(coefficients[k], FPow(Dec(0, 1, 2), k - 1))>>
       \o InT(coefficients, k + 1)
terrestrial_obliquity_coefficients == InT(terrestrial_obliquity_coefficients_U, 1)

\* the difference between Meeus formulae 24.2 and 24.3
solar_perigee_coefficients == <<
  FSub(Dec(280, 46645, 5), Dec(357, 52910, 5)),
  FSub(Dec(36000, 76932, 5), Dec(35999, 5030, 5)),
  FAdd(Dec(0, 3032, 7), Dec(0, 1559, 7)),
  Dec(0, 48, 8) >>

\* Meeus formula 24.2
solar_longitude_coefficients == <<
  Dec(280, 46645, 5),
  Dec(36000, 76983, 5),
  Dec(0, 3032, 7) >>

\* This value is taken from JPL Horizon and is essentially constant
lunar_inclination_coefficients == << Dec(5, 145, 3) >>

\* Meeus formula 45.1.  No comma separates the source's last two lines,
\* 1/538841.0 and -1/65194000.0: they are one expression, a difference, and
\* the tuple has four elements.
lunar_longitude_coefficients == <<
  Dec(218, 3164591, 7),
  Dec(481267, 88134236, 8),
  FNeg(Dec(0, 13268, 7)),
  FSub(FDiv(FromInt(1), Dec(538841, 0, 1)),
       FDiv(FromInt(1), Dec(65194000, 0, 1))) >>

\* Meeus formula 45.7
lunar_node_coefficients == <<
  Dec(125, 445550, 7),
  FNeg(Dec(1934, 1361849, 7)),
  Dec(0, 20762, 7),
  FDiv(FromInt(1), Dec(467410, 0, 1)),
  FDiv(FromInt(-1), Dec(60616000, 0, 1)) >>

\* Meeus, unnumbered formula directly preceded by 45.7
lunar_perigee_coefficients == <<
  Dec(83, 3532430, 7),
  Dec(4069, 137111, 7),
  FNeg(Dec(0, 103238, 7)),
  FDiv(FromInt(-1), Dec(80053, 0, 1)),
  FDiv(FromInt(1), Dec(18999000, 0, 1)) >>

PolynomialsTable ==
  ("s"     :> lunar_longitude_coefficients) @@
  ("h"     :> solar_longitude_coefficients) @@
  ("p"     :> lunar_perigee_coefficients) @@
  ("N"     :> lunar_node_coefficients) @@
  ("pp"    :> solar_perigee_coefficients) @@
  ("90"    :> << Dec(90, 0, 1) >>) @@
  ("omega" :> terrestrial_obliquity_coefficients) @@
  ("i"     :> lunar_inclination_coefficients)

(***************************************************************************)
(* The math module.  radians and degrees are one multiplication by a float *)
(* constant, as in CPython.  The last bits of libm's cos, sin, tan, atan   *)
(* and acos are the platform's; they are modelled as deterministic         *)
(* functions computed in fixed point, Fx units to one, by the Taylor       *)
(* series after argument reduction: right to about 1e-4 radians, within    *)
(* the mathematical range of each function.                                *)
(***************************************************************************)
math_pi == DecParts(3, 14159265, 8, 3589793, 7)
degToRad == FDiv(math_pi, Dec(180, 0, 1))
radToDeg == FDiv(Dec(180, 0, 1), math_pi)
math_radians(x) == FMul(x, degToRad)
math_degrees(x) == FMul(x, radToDeg)

\* x * 2^n, exact
Ldexp(x, n) == IF IsZero(x) THEN x ELSE [x EXCEPT !.e = @ + n]

Fx == 2 ^ LimbBits
\* the multiple of 1/Fx nearest to x, and back
ToFx(x) == After(x, (Floor(Ldexp(x, LimbBits + 1)) + 1) \div 2)
FromFx(v) == After(v, Ldexp(FromInt(v), -LimbBits))
MulFx(v, w) == (v * w) \div Fx
\* math.pi in units of 1/Fx, ToFx(math_pi)
PiFx == 102944
HalfPiFx == PiFx \div 2

\* sin and cos of v, |v| <= pi/4
SinK(v) ==
  LET v2 == MulFx(v, v)
  IN  MulFx(v, Fx - MulFx(v2 \div 6,
                          Fx - MulFx(v2 \div 20, Fx - v2 \div 42)))
CosK(v) ==
  LET v2 == MulFx(v, v)
  IN  Fx - MulFx(v2 \div 2,
                 Fx - MulFx(v2 \div 12,
                            Fx - MulFx(v2 \div 30, Fx - v2 \div 56)))

\* v = quadrant * pi/2 + rest, |rest| <= pi/4
Quadrant(v) == (2 * v + HalfPiFx) \div PiFx
SinIn(quadrant, rest) ==
  CASE quadrant % 4 = 0 -> SinK(rest)
    [] quadrant % 4 = 1 -> CosK(rest)
    [] quadrant % 4 = 2 -> -SinK(rest)
    [] quadrant % 4 = 3 -> -CosK(rest)
SinFx(v) == SinIn(Quadrant(v), v - Quadrant(v) * HalfPiFx)
CosFx(v) == SinFx(v + HalfPiFx)

\* atan of v, |v| <= tan(pi/8)
AtanK(v) ==
  LET v2 == MulFx(v, v)
  IN  MulFx(v, Fx - MulFx(v2, Fx \div 3
                - MulFx(v2, Fx \div 5
                - MulFx(v2, Fx \div 7
                - MulFx(v2, Fx \div 9 - MulFx(v2, Fx \div 11))))))

\* atan of v, 0 <= v <= 1: atan(v) = pi/4 + atan((v - 1) / (v + 1))
AtanFx(v) ==
  IF 5 * v <= 2 * Fx THEN AtanK(v)
  ELSE HalfPiFx \div 2 + AtanK(((v - Fx) * Fx) \div (v + Fx))

\* the integer square root, by Newton's iteration from above
RECURSIVE SqrtFrom(_, _)
SqrtFrom(v, guess) ==
  LET better == (guess + v \div guess) \div 2
  IN  IF better >= guess THEN guess ELSE SqrtFrom(v, better)
Sqrt(v) == IF v = 0 THEN 0 ELSE SqrtFrom(v, v)

math_sin(x) == After(x, FromFx(SinFx(ToFx(x))))
math_cos(x) == After(x, FromFx(CosFx(ToFx(x))))

\* sin / cos; at a zero of the fixed-point cos, the largest value it gives
TanOf(sine, cosine) ==
  IF cosine = 0 THEN FromInt(IF sine < 0 THEN -Fx ELSE Fx)
  ELSE FDiv(FromInt(sine), FromInt(cosine))
math_tan(x) == After(x, TanOf(SinFx(ToFx(x)), CosFx(ToFx(x))))

\* atan(x) = pi/2 - atan(1/x) beyond 1; odd in x
AtanAbs(ax) ==
  IF FLt(FromInt(1), ax) THEN HalfPiFx - AtanFx(ToFx(FDiv(FromInt(1), ax)))
  ELSE AtanFx(ToFx(ax))
AtanSigned(s, pos) == After(pos, FromFx(IF s = 1 THEN -pos ELSE pos))
math_atan(x) == After(x, AtanSigned(x.s, AtanAbs([x EXCEPT !.s = 0])))

\* acos(x) for -1 <= x <= 1, from atan of sqrt(1 - x^2) / x
AcosAcute(sine, ac) ==
  IF sine <= ac THEN AtanFx((sine * Fx) \div ac)
  ELSE HalfPiFx - AtanFx((ac * Fx) \div sine)
AcosOf(cosine, sine) ==
  IF cosine < 0 THEN PiFx - AcosAcute(sine, -cosine)
  ELSE AcosAcute(sine, cosine)
math_acos(x) ==
  After(x, FromFx(AcosOf(ToFx(x), Sqrt(Fx * Fx - ToFx(x) * ToFx(x)))))

(***************************************************************************)
(* Schureman's auxiliary values, from N, i and omega in degrees.  Each     *)
(* function is its statements in order, a name that a statement binds      *)
(* being a parameter of the statements after it.                           *)
(***************************************************************************)
Half == Dec(0, 5, 1)

\* _I after N, i, omega = math.radians(N), math.radians(i), math.radians(omega)
I_radians(N, i, omega) ==
  After(<<N, i, omega>>,
  math_degrees(math_acos(
    FSub(FMul(math_cos(i), math_cos(omega)),
         FMul(FMul(math_sin(i), math_sin(omega)), math_cos(N))))))
_I(N, i, omega) ==
  I_radians(math_radians(N), math_radians(i), math_radians(omega))

\* the e1 and e2 of _xi and _nu after e1, e2 = e1 - N5, e2 - N5, from N5
\* and from i and omega in radians
E1(N5, i, omega) ==
  FSub(math_atan(FMul(FDiv(math_cos(FMul(Half, FSub(omega, i))),
                           math_cos(FMul(Half, FAdd(omega, i)))),
                      math_tan(N5))),
       N5)
E2(N5, i, omega) ==
  FSub(math_atan(FMul(FDiv(math_sin(FMul(Half, FSub(omega, i))),
                           math_sin(FMul(Half, FAdd(omega, i)))),
                      math_tan(N5))),
       N5)

xi_radians(N5, i, omega) ==
  After(<<N5, i, omega>>,
  math_degrees(FNeg(FAdd(E1(N5, i, omega), E2(N5, i, omega)))))
_xi(N, i, omega) ==
  xi_radians(FMul(math_radians(N), Half), math_radians(i), math_radians(omega))

nu_radians(N5, i, omega) ==
  After(<<N5, i, omega>>,
  math_degrees(FSub(E1(N5, i, omega), E2(N5, i, omega))))
_nu(N, i, omega) ==
  nu_radians(FMul(math_radians(N), Half), math_radians(i), math_radians(omega))

\* Schureman equation 224
nup_sin2i(sin2i, nu) ==
  After(sin2i,
  math_degrees(math_atan(
    FDiv(FMul(sin2i, math_sin(nu)),
         FAdd(FMul(sin2i, math_cos(nu)), Dec(0, 3347, 4))))))
nup_I(I, nu) == After(<<I, nu>>, nup_sin2i(math_sin(FMul(FromInt(2), I)), nu))
_nup(N, i, omega) ==
  nup_I(math_radians(_I(N, i, omega)), math_radians(_nu(N, i, omega)))

\* Schureman equation 232
nupp_sinI2(sinI2, nu2) ==
  After(<<sinI2, nu2>>,
  math_degrees(FMul(Half, math_atan(
    FDiv(FMul(sinI2, math_sin(nu2)),
         FAdd(FMul(sinI2, math_cos(nu2)), Dec(0, 727, 4)))))))
nupp_I(I, nu) ==
  After(<<I, nu>>,
  nupp_sinI2(FPow(math_sin(I), 2), FMul(FromInt(2), nu)))
_nupp(N, i, omega) ==
  nupp_I(math_radians(_I(N, i, omega)), math_radians(_nu(N, i, omega)))

(***************************************************************************)
(* Polynomial evaluation.  A coefficient sequence is a tuple of floats,    *)
(* lowest order first; enumerate() counts from 0, the sequence from 1.     *)
(* sum() starts from the int 0, which is modelled as 0.0.                  *)
(***************************************************************************)
RECURSIVE PolySum(_, _, _, _)
PolyNext(coefficients, argument, k, next) ==
  After(next, PolySum(coefficients, argument, k + 1, next))
PolySum(coefficients, argument, k, acc) ==
  IF k > Len(coefficients) THEN acc
  ELSE PolyNext(coefficients, argument, k,
                FAdd(acc, FMul(coefficients[k], FPow(argument, k - 1))))

\* Evaluate a polynomial at argument
polynomial(coefficients, argument) == PolySum(coefficients, argument, 1, FZero)

\* the terms c * i * (argument ** (i-1)) in order; a term that raises ends
\* the sum
RECURSIVE DPolySum(_, _, _, _)
DPolyNext(coefficients, argument, k, next) ==
  After(next, DPolySum(coefficients, argument, k + 1, next))
DPolyTerm(coefficients, argument, k, acc, power) ==
  IF Raised(power) THEN ZeroDivisionError
  ELSE DPolyNext(coefficients, argument, k,
                 FAdd(acc, FMul(FMul(coefficients[k], FromInt(k - 1)), power)))
DPolySum(coefficients, argument, k, acc) ==
  IF k > Len(coefficients) THEN acc
  ELSE DPolyTerm(coefficients, argument, k, acc, FPow(argument, k - 2))

\* Evaluate the first derivative of a polynomial at argument
d_polynomial(coefficients, argument) == DPolySum(coefficients, argument, 1, FZero)

(***************************************************************************)
(* astro.  A Parameter Set is a function from names to                     *)
(* AstronomicalParameter records; a call that raises has the exception as  *)
(* its outcome.  astro is its statements in order, each adding its entries *)
(* to the dict a of the statements before it.                              *)
(***************************************************************************)
None == [none |-> TRUE]

AstronomicalParameter(value, speed) == [value |-> value, speed |-> speed]

dT_dHour ==
  FDiv(FromInt(1), FMul(FMul(FromInt(24), Dec(365, 25, 2)), FromInt(100)))

\* a[name] of the loop over POLYNOMIALS.items(), d the d_polynomial of the
\* entry; one that raises is kept as the entry's speed
PolynomialParameter(coefficients, Tt, d) ==
  AstronomicalParameter(FMod(polynomial(coefficients, Tt), Dec(360, 0, 1)),
                        IF Raised(d) THEN d ELSE FMul(d, dT_dHour))
AstroPolynomials(polynomials, Tt) ==
  After(Tt,
  [name \in DOMAIN polynomials |->
     PolynomialParameter(polynomials[name], Tt,
                         d_polynomial(polynomials[name], Tt))])

\* the loop without its last function
NodalNames_Four == <<"I", "xi", "nu", "nup">>

\* the functions of the loop over (_I, _xi, _nu, _nup, _nupp), by
\* function.__name__.strip('_')
NodalNames == <<"I", "xi", "nu", "nup", "nupp">>
Nodal(name, N, i, omega) ==
  CASE name = "I"    -> _I(N, i, omega)
    [] name = "xi"   -> _xi(N, i, omega)
    [] name = "nu"   -> _nu(N, i, omega)
    [] name = "nup"  -> _nup(N, i, omega)
    [] name = "nupp" -> _nupp(N, i, omega)
AstroNodal(a, N, i, omega) ==
  [name \in {NodalNames[k] : k \in 1..Len(NodalNames)} |->
     AstronomicalParameter(FMod(Nodal(name, N, i, omega), Dec(360, 0, 1)),
                           None)] @@ a

AstroHour(JDt) ==
  After(JDt,
  AstronomicalParameter(FMul(FSub(JDt, FromInt(Floor(JDt))), Dec(360, 0, 1)),
                        Dec(15, 0, 1)))
AstroTHS(a, hour) ==
  After(<<a, hour>>,
  ("T+h-s" :> AstronomicalParameter(
                FSub(FAdd(hour.value, a["h"].value), a["s"].value),
                FSub(FAdd(hour.speed, a["h"].speed), a["s"].speed))) @@ a)

AstroP(a) ==
  After(a,
  ("P" :> AstronomicalParameter(
            FMod(FSub(a["p"].value, a["xi"].value), Dec(360, 0, 1)),
            None)) @@ a)

\* the statements after the loop over POLYNOMIALS.items(); a d_polynomial
\* that raised has ended the call
AstroAfter(t, a) ==
  After(a,
  IF \E name \in DOMAIN a : Raised(a[name].speed) THEN ZeroDivisionError
  ELSE AstroP(AstroTHS(AstroNodal(a, a["N"].value, a["i"].value,
                                  a["omega"].value),
                       AstroHour(JD(t)))))

\* astro(t), reading the module's POLYNOMIALS as polynomials
astro(t, polynomials) == AstroAfter(t, AstroPolynomials(polynomials, T(t)))

(***************************************************************************)
(* The datetime values handed to JD, T and astro: proleptic Gregorian,     *)
(* naive, microsecond resolution.                                          *)
(***************************************************************************)
datetime(year, month, day, hour, minute, second, microsecond) ==
  [year |-> year, month |-> month, day |-> day, hour |-> hour,
   minute |-> minute, second |-> second, microsecond |-> microsecond]

IsLeap(year) == year % 4 = 0 /\ (year % 100 # 0 \/ year % 400 = 0)
DaysInMonth(year, month) ==
  IF month = 2 THEN (IF IsLeap(year) THEN 29 ELSE 28)
  ELSE IF month \in {4, 6, 9, 11} THEN 30 ELSE 31

\* d + timedelta(days=1)
NextDay(d) ==
  IF d.day < DaysInMonth(d.year, d.month) THEN [d EXCEPT !.day = @ + 1]
  ELSE IF d.month < 12 THEN [d EXCEPT !.day = 1, !.month = @ + 1]
  ELSE [d EXCEPT !.day = 1, !.month = 1, !.year = @ + 1]

\* d + timedelta(microseconds=n) for 0 <= n, less than a day
SecondOfDay(d) == (d.hour * 60 + d.minute) * 60 + d.second
LaterBy(d, n) ==
  LET micros  == d.microsecond + n
      seconds == SecondOfDay(d) + micros \div 1000000
      sameDay == [d EXCEPT !.hour = (seconds % 86400) \div 3600,
                           !.minute = (seconds % 3600) \div 60,
                           !.second = seconds % 60,
                           !.microsecond = micros % 1000000]
  IN  IF seconds < 86400 THEN sameDay ELSE NextDay(sameDay)

\* d + timedelta(hours=1)
NextHour(d) ==
  IF d.hour < 23 THEN [d EXCEPT !.hour = @ + 1]
  ELSE NextDay([d EXCEPT !.hour = 0])

\* d1 < d2
RECURSIVE KeyLt(_, _, _)
KeyLt(k1, k2, j) ==
  /\ j <= Len(k1)
  /\ \/ k1[j] < k2[j]
     \/ k1[j] = k2[j] /\ KeyLt(k1, k2, j + 1)
Before(d1, d2) ==
  KeyLt(<<d1.year, d1.month, d1.day, d1.hour, d1.minute, d1.second,
          d1.microsecond>>,
        <<d2.year, d2.month, d2.day, d2.hour, d2.minute, d2.second,
          d2.microsecond>>, 1)

\* the J2000.0 epoch, 2000-01-01T12:00:00
J2000 == datetime(2000, 1, 1, 12, 0, 0, 0)

(***************************************************************************)
(* The state: the module's POLYNOMIALS dict, and a caller of its           *)
(* functions.                                                              *)
(*   clock, ticks  the caller's current time and the ticks that led to it  *)
(*   ret, calls    the argument and the outcome of the last astro call,    *)
(*                 and the number of calls made                            *)
(*   dates, moves  two datetimes, and the steps that set them apart        *)
(*   julian        JD of the two dates and T of the earlier one            *)
(*   coeffs, arg   a coefficient sequence and an argument                  *)
(*   evals         polynomial and d_polynomial of them                     *)
(***************************************************************************)
VARIABLES POLYNOMIALS, clock, ticks, ret, calls, dates, moves, julian,
          coeffs, arg, evals

astroVars == <<clock, ticks, ret, calls>>
jdVars    == <<dates, moves, julian>>
polyVars  == <<coeffs, arg, evals>>
vars      == <<POLYNOMIALS, astroVars, jdVars, polyVars>>

NotCalled == [called |-> FALSE]

\* nobody has called yet
NoAstro == clock = J2000 /\ ticks = 0 /\ ret = NotCalled /\ calls = 0
NoJD    == dates = [earlier |-> J2000, later |-> J2000] /\ moves = 0
           /\ julian = NotCalled
NoPoly  == coeffs = <<>> /\ arg = FZero /\ evals = NotCalled

(***************************************************************************)
(* Calls of astro, one per Call step, at the caller's time.                *)
(***************************************************************************)
MaxTicks == 4
MaxCalls == 2

\* 2000-01-01T10:00:00
Start == datetime(2000, 1, 1, 10, 0, 0, 0)

Init ==
  /\ POLYNOMIALS = PolynomialsTable
  /\ clock = Start /\ ticks = 0 /\ ret = NotCalled /\ calls = 0
  /\ NoJD /\ NoPoly

HourPasses ==
  /\ ticks < MaxTicks
  /\ ticks' = ticks + 1
  /\ clock' = NextHour(clock)
  /\ UNCHANGED <<POLYNOMIALS, ret, calls, jdVars, polyVars>>

DayPasses ==
  /\ ticks < MaxTicks
  /\ ticks' = ticks + 1
  /\ clock' = NextDay(clock)
  /\ UNCHANGED <<POLYNOMIALS, ret, calls, jdVars, polyVars>>

\* a call that leaves POLYNOMIALS without the coefficient of i
Call_Mutating ==
  /\ calls < MaxCalls
  /\ calls' = calls + 1
  /\ ret' = [t |-> clock, a |-> astro(clock, POLYNOMIALS)]
  /\ POLYNOMIALS' = [POLYNOMIALS EXCEPT !["i"] = <<>>]
  /\ UNCHANGED <<clock, ticks, jdVars, polyVars>>

\* astro(clock): the dict a is local to the call, and no statement of astro
\* or of the functions it calls assigns to POLYNOMIALS or to a tuple in it
Call ==
  /\ calls < MaxCalls
  /\ calls' = calls + 1
  /\ ret' = [t |-> clock, a |-> astro(clock, POLYNOMIALS)]
  /\ UNCHANGED <<POLYNOMIALS, clock, ticks, jdVars, polyVars>>

Next == HourPasses \/ DayPasses \/ Call

Spec == Init /\ [][Next]_vars

(***************************************************************************)
(* Calls of JD and T on two datetimes, the later one zero or more steps    *)
(* after the earlier.                                                      *)
(***************************************************************************)
MaxMoves == 2

\* the years of the first dates: a century year that is no leap year, one
\* that is, a common year and a leap year
Years == {1900, 2000, 2023, 2024}

\* 00:00:00 on the last day of each month of Years, and the epoch
FirstDates ==
  {datetime(y, m, DaysInMonth(y, m), 0, 0, 0, 0) : y \in Years, m \in 1..12}
  \cup {J2000}

\* a microsecond and a millisecond
Delays == {1, 1000}

InitJD ==
  /\ POLYNOMIALS = PolynomialsTable
  /\ dates \in {[earlier |-> d, later |-> d] : d \in FirstDates}
  /\ moves = 0
  /\ julian = NotCalled
  /\ NoAstro /\ NoPoly

Delay ==
  /\ julian = NotCalled
  /\ moves < MaxMoves
  /\ moves' = moves + 1
  /\ \E n \in Delays : dates' = [dates EXCEPT !.later = LaterBy(@, n)]
  /\ UNCHANGED <<POLYNOMIALS, julian, astroVars, polyVars>>

DelayADay ==
  /\ julian = NotCalled
  /\ moves < MaxMoves
  /\ moves' = moves + 1
  /\ dates' = [dates EXCEPT !.later = NextDay(@)]
  /\ UNCHANGED <<POLYNOMIALS, julian, astroVars, polyVars>>

Convert ==
  /\ julian = NotCalled
  /\ julian' = [earlier |-> JD(dates.earlier), later |-> JD(dates.later),
                T |-> T(dates.earlier)]
  /\ UNCHANGED <<POLYNOMIALS, dates, moves, astroVars, polyVars>>

NextJD == Delay \/ DelayADay \/ Convert

SpecJD == InitJD /\ [][NextJD]_vars

(***************************************************************************)
(* Calls of polynomial and d_polynomial.                                   *)
(***************************************************************************)
MaxLen == 3

\* 90.0, 1.5, -2.0
Coefficients == {Dec(90, 0, 1), Dec(1, 5, 1), FNeg(Dec(2, 0, 1))}

\* 0.0, 0.5, -3.0
Arguments == {FZero, Dec(0, 5, 1), FNeg(Dec(3, 0, 1))}

\* the tuples of at most n Coefficients
RECURSIVE Tuples(_)
Tuples(n) ==
  IF n = 0 THEN {<<>>}
  ELSE Tuples(n - 1)
       \cup {Append(c, k) : c \in Tuples(n - 1), k \in Coefficients}

InitPoly ==
  /\ POLYNOMIALS = PolynomialsTable
  /\ coeffs \in Tuples(MaxLen)
  /\ arg \in Arguments
  /\ evals = NotCalled
  /\ NoAstro /\ NoJD

Evaluate ==
  /\ evals = NotCalled
  /\ evals' = [polynomial   |-> polynomial(coeffs, arg),
               d_polynomial |-> d_polynomial(coeffs, arg)]
  /\ UNCHANGED <<POLYNOMIALS, coeffs, arg, astroVars, jdVars>>

NextPoly == Evaluate

SpecPoly == InitPoly /\ [][NextPoly]_vars

(***************************************************************************)
(* The claims.                                                             *)
(***************************************************************************)
\* the last call of astro returned a Parameter Set
Returned == ret # NotCalled /\ ~Raised(ret.a)

\* 0 <= v < 360
InRange(v) == FLe(FZero, v) /\ FLt(v, Dec(360, 0, 1))

\* v is a number
IsFloat(v) == DOMAIN v = {"s", "m", "e"}

\* C1: every value of the Parameter Set astro returns lies in [0, 360), the
\* value of T+h-s included.
C1_ValuesInRange ==
  Returned => \A name \in DOMAIN ret.a : InRange(ret.a[name].value)

\* C2: astro returns for every timestamp, and the entry 90 of what it
\* returns has the value 90.0 and the speed 0.0.
C2_Ninety ==
  ret # NotCalled =>
    /\ ~Raised(ret.a)
    /\ FEq(ret.a["90"].value, Dec(90, 0, 1))
    /\ FEq(ret.a["90"].speed, FZero)

\* C3: polynomial and d_polynomial return a number for every coefficient
\* sequence and every argument, and never raise.
C3_Total ==
  evals # NotCalled =>
    /\ IsFloat(evals.polynomial)
    /\ IsFloat(evals.d_polynomial)

HourAngle(t) == FMul(FMod(JD(t), FromInt(1)), Dec(360, 0, 1))

\* C5: the value of T+h-s is (hourAngle + h.value - s.value) mod 360, and
\* its speed is 15.0 + h.speed - s.speed.
C5_Composite ==
  Returned =>
    /\ FEq(ret.a["T+h-s"].value,
           FMod(FSub(FAdd(HourAngle(ret.t), ret.a["h"].value),
                     ret.a["s"].value),
                Dec(360, 0, 1)))
    /\ FEq(ret.a["T+h-s"].speed,
           FSub(FAdd(Dec(15, 0, 1), ret.a["h"].speed), ret.a["s"].speed))

\* JD and T of the epoch: 2451545.0 and 0
EpochValues ==
  dates.earlier = J2000 =>
    FEq(julian.earlier, Dec(2451545, 0, 1)) /\ IsZero(julian.T)

\* C6, as stated: JD(t1) < JD(t2) for any two timestamps t1 < t2, and JD of
\* 2000-01-01T12:00:00 is 2451545.0 and T of it is 0.
C6_StrictlyIncreasing ==
  julian # NotCalled =>
    /\ Before(dates.earlier, dates.later)
         => FLt(julian.earlier, julian.later)
    /\ EpochValues

\* C6, amended: JD(t1) <= JD(t2) for any two timestamps t1 < t2, and
\* JD(t1) < JD(t2) when t2 is a millisecond or more after t1; JD of
\* 2000-01-01T12:00:00 is 2451545.0 and T of it is 0.
C6_Increasing ==
  julian # NotCalled =>
    /\ Before(dates.earlier, dates.later)
         => FLe(julian.earlier, julian.later)
    /\ Before(LaterBy(dates.earlier, 999), dates.later)
         => FLt(julian.earlier, julian.later)
    /\ EpochValues

\* JD and T of the epoch and JD of a millisecond after it have been computed
C6_EpochAndLater ==
  /\ julian # NotCalled
  /\ dates.earlier = J2000
  /\ dates.later = LaterBy(J2000, 1000)

\* d is 00:00:00 on the last day of a month
LastMidnight(d) ==
  /\ d.day = DaysInMonth(d.year, d.month)
  /\ SecondOfDay(d) = 0
  /\ d.microsecond = 0

\* C7: JD at 00:00:00 on the first day of a month is JD at 00:00:00 on the
\* last day of the month before it plus exactly 1.
C7_Rollover ==
  (/\ julian # NotCalled
   /\ LastMidnight(dates.earlier)
   /\ dates.later = NextDay(dates.earlier))
    => FEq(julian.later, FAdd(julian.earlier, FromInt(1)))

\* JD of 1900-02-28 and of 1900-03-01 have been computed
C7_FebruaryToMarch ==
  /\ julian # NotCalled
  /\ dates.earlier = datetime(1900, 2, 28, 0, 0, 0, 0)
  /\ dates.later = datetime(1900, 3, 1, 0, 0, 0, 0)

\* C8: a call of astro leaves POLYNOMIALS as it is, and returns what
\* astro returns for its timestamp with POLYNOMIALS as the module
\* defines it, whatever calls came before.
C8_Pure ==
  [][calls' # calls =>
       /\ POLYNOMIALS' = POLYNOMIALS
       /\ ret'.a = astro(ret'.t, PolynomialsTable)]_vars

\* astro has returned from a call that was not the first
C8_CalledAgain == calls >= 2 /\ Returned

\* (1*c_1, 2*c_2, ..., n*c_n) for c = (c_0, c_1, ..., c_n)
RECURSIVE DerivedFrom(_, _)
DerivedFrom(c, k) ==
  IF k > Len(c) THEN <<>>
  ELSE <<FMul(FromInt(k - 1), c[k])>> \o DerivedFrom(c, k + 1)
Derived(c) == DerivedFrom(c, 2)

\* C9: d_polynomial(c, x) is polynomial of the derived coefficient
\* sequence at x, for every c and every x.
C9_Derivative ==
  evals # NotCalled =>
    /\ IsFloat(evals.d_polynomial)
    /\ FEq(evals.d_polynomial, polynomial(Derived(coeffs), arg))

\* C10: the entries s, N and p of the coefficient table have five
\* coefficients each.
C10_FiveCoefficients ==
  /\ Len(POLYNOMIALS["s"]) = 5
  /\ Len(POLYNOMIALS["N"]) = 5
  /\ Len(POLYNOMIALS["p"]) = 5

====
